---- MODULE Spec2Model ----
(***************************************************************************)
(* Model of packages/nextjs/src/core/logger.ts: the Logger class (its      *)
(* constructor, with / withArgs / withRequest, the level methods, _log,    *)
(* ingest, flush) and prettyPrint.                                         *)
(*                                                                         *)
(* JavaScript objects that can be shared between loggers (the args and req *)
(* maps of a config) live in `heap` and are held by reference; a logger's  *)
(* top-level config object is created afresh by the constructor and is     *)
(* held by value.  The ingestion client, the configurator and the platform *)
(* metadata provider are external: the client's ingest and flush take      *)
(* every outcome they can have, the configurator's flags are fixed at      *)
(* start-up, and injectPlatformMetadata is taken to add nothing to the     *)
(* event's fields.                                                         *)
(***************************************************************************)
EXTENDS Integers, Sequences, FiniteSets, TLC

VARIABLES
  env,       \* process-wide settings read by the logger (configurator, LOG_LEVEL)
  heap,      \* heap[r]: the map object with reference r (an args or a req map)
  loggers,   \* loggers[i]: the i-th Logger instance created
  returned,  \* history: one record per logger returned by with/withArgs/withRequest
             \* and per change the caller made to a config
  out        \* what the most recent call did: console writes, client calls, result

vars == <<env, heap, loggers, returned, out>>

\* ------------------------------------------------------------------ bounds

\* Loggers created by withArgs in a run of SpecChain (root excluded).
MaxChain == 2
\* Calls made in a run of SpecTree: with, withArgs, withRequest, and the
\* caller's changes of a config.
MaxCalls == 3

\* ------------------------------------------------------------- JS values

\* {...a, ...b} on maps: the keys of both, b's value on a key of both.
Spread(a, b) ==
  [k \in (DOMAIN a) \cup (DOMAIN b) |-> IF k \in DOMAIN b THEN b[k] ELSE a[k]]

EmptyMap == [k \in {} |-> ""]

\* A property that is present with the value undefined.
JsUndefined == "<undefined>"

\* enum LogLevel: the names and their numbers.
LevelNames == {"debug", "info", "warn", "error", "off"}
LevelNumber == [debug |-> 0, info |-> 1, warn |-> 2, error |-> 3, off |-> 100]
LevelNumbers == {LevelNumber[n] : n \in LevelNames}

\* Number.prototype.toString on the enum's numbers.
NumberToString(n) ==
  CASE n = 0 -> "0"
    [] n = 1 -> "1"
    [] n = 2 -> "2"
    [] n = 3 -> "3"
    [] OTHER -> "100"

\* LogLevel[key]: a numeric enum maps a name to its number and, by its reverse
\* mapping, a number's decimal string to the name; any other key is undefined.
LogLevelLookup(key) ==
  IF key \in LevelNames
    THEN [t |-> "number", n |-> LevelNumber[key], s |-> ""]
    ELSE IF \E m \in LevelNumbers : NumberToString(m) = key
      THEN [t |-> "string", n |-> 0,
            s |-> CHOOSE nm \in LevelNames : NumberToString(LevelNumber[nm]) = key]
      ELSE [t |-> "undefined", n |-> 0, s |-> ""]

\* x < y for a number x: y is converted with ToNumber; a level name or
\* undefined converts to NaN, and every comparison with NaN is false.
JsLess(x, y) ==
  /\ x.t = "number"
  /\ y.t = "number"
  /\ x.n < y.n

\* ------------------------------------------------------------ the Logger

\* The settings a process can start with: LOG_LEVEL is AXIOM_LOG_LEVEL or
\* 'debug'; the rest are the configurator's and shared's flags. The two
\* flags only prettyPrint reads vary where they can show: isBrowser in rich
\* mode, and both with the credentials unset.
EnvLevels == {"debug", "warn"}
Envs ==
  { e \in [LOG_LEVEL : EnvLevels, isEnvVarsSet : BOOLEAN,
            isNoPrettyPrint : BOOLEAN, isBrowser : BOOLEAN] :
      /\ e.isNoPrettyPrint => ~e.isBrowser
      /\ e.isEnvVarsSet => ~e.isNoPrettyPrint /\ ~e.isBrowser }

\* The class's field initialiser of config.
DefaultConfig == [source |-> "frontend", logLevel |-> LevelNumber.debug]

\* this.config.logLevel ? ... : a present, non-zero number is truthy.
LogLevelIsTruthy(config) ==
  /\ "logLevel" \in DOMAIN config
  /\ config.logLevel # 0

\* this.logLevel as the constructor sets it from the merged config.
LogLevelField(config, e) ==
  IF LogLevelIsTruthy(config) THEN NumberToString(config.logLevel) ELSE e.LOG_LEVEL

\* new Logger(initConfig): config is {...defaults, ...initConfig}; the args
\* and req entries of initConfig are references and are copied as such.
NewLogger(initConfig, e) ==
  LET config == Spread(DefaultConfig, initConfig)
  IN  [config |-> config,
       logLevel |-> LogLevelField(config, e),
       children |-> <<>>]

\* The args map of a config, or no entries when the config has none
\* (this.config.args, spread or defaulted with || {}).
ArgsOf(config, h) == IF "args" \in DOMAIN config THEN h[config.args] ELSE EmptyMap
ReqOf(config, h) == IF "req" \in DOMAIN config THEN h[config.req] ELSE EmptyMap

\* A config with its args and req maps read through: what a reader of
\* logger.config sees.
DeepConfig(config, h) ==
  [k \in DOMAIN config |-> IF k \in {"args", "req"} THEN h[config[k]] ELSE config[k]]

\* The caller's object literals: a config override names its args and req
\* maps by value; passing it to a method puts each map on the heap, where the
\* new logger's config refers to it.
HasMap(cfg, k) == k \in DOMAIN cfg

\* The heap after the maps of cfg were created (args first, then req).
HeapWith(cfg, h) ==
  LET h1 == IF HasMap(cfg, "args") THEN Append(h, cfg.args) ELSE h
  IN  IF HasMap(cfg, "req") THEN Append(h1, cfg.req) ELSE h1

\* cfg with each map replaced by its reference in HeapWith(cfg, h).
RefsOf(cfg, h) ==
  [k \in DOMAIN cfg |->
     CASE k = "args" -> Len(h) + 1
       [] k = "req"  -> IF HasMap(cfg, "args") THEN Len(h) + 2 ELSE Len(h) + 1
       [] OTHER      -> cfg[k]]

\* Variants of WithConfig: the spread with its operands exchanged, so that
\* the parent's value stays on a key of both; and the override dropped.
WithConfigParentWins(config, cfgRefs) == Spread(cfgRefs, config)
WithConfigNoOverride(config, cfgRefs) == config

\* with: const newConfig = {...this.config, ...config}.
WithConfig(config, cfgRefs) == Spread(config, cfgRefs)

\* Variant of WithArgsMap: the new map holds the call's args alone.
WithArgsMapReplacing(config, args, h) == args

\* withArgs: the merged map {...this.config.args, ...args}.
WithArgsMap(config, args, h) == Spread(ArgsOf(config, h), args)

\* withRequest: the merged map {...this.config.req, ...req}.
WithRequestMap(config, req, h) == Spread(ReqOf(config, h), req)

\* this.children.push(child) in with and withArgs.
PushChild(children, child) == Append(children, child)

\* withRequest returns the new logger and leaves this.children alone.
WithRequestChildren(children, child) == children

\* ------------------------------------------------ configuration extension

\* The overrides a caller passes to with().
WithCfgs ==
  { EmptyMap,
    [args |-> [b |-> "v2"], source |-> "backend"],
    [req |-> [path |-> "/x"], logLevel |-> LevelNumber.warn] }

\* The maps a caller passes to withArgs().
WithArgsInputs == { [a |-> "v2"], [a |-> "v3", c |-> "v1"] }

\* The maps a caller passes to withRequest().
WithRequestInputs == { [method |-> "GET"] }

\* child = loggers[p].with(cfg)
With(p, cfg) ==
  LET h1 == HeapWith(cfg, heap)
      child == NewLogger(WithConfig(loggers[p].config, RefsOf(cfg, heap)), env)
      id == Len(loggers) + 1
  IN  /\ heap' = h1
      /\ loggers' = Append([loggers EXCEPT ![p].children = PushChild(@, id)], child)
      /\ returned' = Append(returned, [op |-> "with", parent |-> p, child |-> id, input |-> cfg])
      /\ out' = [op |-> "with", logger |-> p, child |-> id, input |-> cfg]
      /\ UNCHANGED env

\* child = loggers[p].withArgs(args)
WithArgs(p, args) ==
  LET h1 == Append(heap, WithArgsMap(loggers[p].config, args, heap))
      config == Spread(loggers[p].config, [args |-> Len(h1)])
      child == NewLogger(config, env)
      id == Len(loggers) + 1
  IN  /\ heap' = h1
      /\ loggers' = Append([loggers EXCEPT ![p].children = PushChild(@, id)], child)
      /\ returned' = Append(returned, [op |-> "withArgs", parent |-> p, child |-> id, input |-> args])
      /\ out' = [op |-> "withArgs", logger |-> p, child |-> id, input |-> args]
      /\ UNCHANGED env

\* child = loggers[p].withRequest(req)
WithRequest(p, req) ==
  LET h1 == Append(heap, WithRequestMap(loggers[p].config, req, heap))
      config == Spread(loggers[p].config, [req |-> Len(h1)])
      child == NewLogger(config, env)
      id == Len(loggers) + 1
  IN  /\ heap' = h1
      /\ loggers' = Append([loggers EXCEPT ![p].children = WithRequestChildren(@, id)], child)
      /\ returned' = Append(returned, [op |-> "withRequest", parent |-> p, child |-> id, input |-> req])
      /\ out' = [op |-> "withRequest", logger |-> p, child |-> id, input |-> req]
      /\ UNCHANGED env

\* ---------------------------------------------------- call-site arguments

\* A value passed as the second argument of a level method. entries: the
\* enumerable own properties of an object, or an Error's message, stack and
\* name; items: an array's elements; s: a string's text; cyclic: the object
\* holds itself (under the key "self"); whole: the value itself, as it shows
\* when it is stored without being taken apart.
Arg(kind, entries, items, str, cyclic, whole) ==
  [kind |-> kind, entries |-> entries, items |-> items, s |-> str,
   cyclic |-> cyclic, whole |-> whole]

ArgOmitted == Arg("undefined", EmptyMap, <<>>, "", FALSE, "undefined")
ArgNull == Arg("null", EmptyMap, <<>>, "", FALSE, "null")
ArgError ==
  Arg("error", [message |-> "boom", stack |-> "boom at f", name |-> "TypeError"],
      <<>>, "", FALSE, "Error(boom)")
ArgObject == Arg("object", [b |-> "w1"], <<>>, "", FALSE, "{b}")
ArgObjectA == Arg("object", [a |-> "w2"], <<>>, "", FALSE, "{a}")
ArgObjectUndef ==
  Arg("object", [b |-> "w1", d |-> JsUndefined], <<>>, "", FALSE, "{b,d}")
ArgCyclic == Arg("object", [b |-> "w1"], <<>>, "", TRUE, "{b,self}")
ArgEmptyObject == Arg("object", EmptyMap, <<>>, "", FALSE, "{}")
ArgArray == Arg("array", EmptyMap, <<"x", "y">>, "", FALSE, "[x,y]")
ArgEmptyArray == Arg("array", EmptyMap, <<>>, "", FALSE, "[]")
ArgString == Arg("string", EmptyMap, <<>>, "text", FALSE, "text")
ArgEmptyString == Arg("string", EmptyMap, <<>>, "", FALSE, "")
ArgNumber == Arg("number", EmptyMap, <<>>, "", FALSE, "5")

Args ==
  { ArgOmitted, ArgNull, ArgError, ArgObject, ArgObjectA, ArgObjectUndef,
    ArgCyclic, ArgEmptyObject, ArgArray, ArgEmptyArray, ArgString,
    ArgEmptyString, ArgNumber }

\* The default parameter value: args = {} when the argument is undefined.
DefaultArgs(arg) == IF arg.kind = "undefined" THEN ArgEmptyObject ELSE arg

\* The property names of an array's elements.
IndexKey == <<"0", "1", "2", "3">>

\* The enumerable entries of an array, as a spread copies them.
ArrayEntries(items) ==
  [k \in {IndexKey[i] : i \in 1..Len(items)} |->
     items[CHOOSE i \in 1..Len(items) : IndexKey[i] = k]]

InstanceOfError(arg) == arg.kind = "error"

\* typeof args === 'object' && args !== null
IsNonNullObject(arg) == arg.kind \in {"object", "array", "error"}

\* Object.keys(args)
ObjectKeys(arg) ==
  CASE arg.kind = "object" -> (DOMAIN arg.entries) \cup (IF arg.cyclic THEN {"self"} ELSE {})
    [] arg.kind = "array"  -> DOMAIN ArrayEntries(arg.items)
    [] OTHER               -> {}

\* args && args.length: a non-empty string or array.
HasLength(arg) ==
  \/ arg.kind = "string" /\ arg.s # ""
  \/ arg.kind = "array" /\ Len(arg.items) > 0

\* JSON.stringify throws a TypeError on a cyclic structure.
JsonThrows(arg) == arg.cyclic

\* JSON.parse(JSON.stringify(args, replacer)): an object loses the entries
\* whose value is undefined; an array keeps its elements.
JsonRoundTrip(arg) ==
  IF arg.kind = "array"
    THEN ArrayEntries(arg.items)
    ELSE [k \in {j \in DOMAIN arg.entries : arg.entries[j] # JsUndefined} |-> arg.entries[k]]

\* The branch of _log's if / else if chain the argument takes.
ArgBranch(arg) ==
  CASE InstanceOfError(arg) -> "error"
    [] IsNonNullObject(arg) /\ ObjectKeys(arg) # {} -> "object"
    [] HasLength(arg) -> "length"
    [] OTHER -> "none"

\* Variant of ErrorFields: the Error is kept as it is, under fields.args.
ErrorFieldsWhole(base, arg) == Spread(base, [args |-> arg.whole])

\* logEvent.fields for an Error argument.
ErrorFields(base, arg) ==
  Spread(base, [message |-> arg.entries.message, stack |-> arg.entries.stack,
                name |-> arg.entries.name])

\* logEvent.fields for an argument stored under fields.args.
WholeFields(base, arg) == Spread(base, [args |-> arg.whole])

\* logEvent.fields once the argument was looked at; base is this.config.args || {}.
BuildFields(base, arg) ==
  CASE ArgBranch(arg) = "error"  -> ErrorFields(base, arg)
    [] ArgBranch(arg) = "object" -> Spread(base, JsonRoundTrip(arg))
    [] ArgBranch(arg) = "length" -> WholeFields(base, arg)
    [] OTHER -> base

\* Whether building the event throws: JSON.stringify in the object branch.
BuildThrows(arg) == ArgBranch(arg) = "object" /\ JsonThrows(arg)

\* if (LogLevel[level] < LogLevel[this.logLevel]) return;
BelowThreshold(level, logLevel) ==
  JsLess(LogLevelLookup(level), LogLevelLookup(logLevel))

\* The LogEvent _log builds (without _time, which the clock gives).
LogEvent(level, config, arg, h) ==
  [level |-> level,
   message |-> "msg",
   fields |-> BuildFields(ArgsOf(config, h), arg),
   hasRequest |-> "req" \in DOMAIN config,
   request |-> ReqOf(config, h)]

\* ------------------------------------------------------------------ sinks

levelColors ==
  [info  |-> [terminal |-> "32", browser |-> "lightgreen"],
   debug |-> [terminal |-> "36", browser |-> "lightblue"],
   warn  |-> [terminal |-> "33", browser |-> "yellow"],
   error |-> [terminal |-> "31", browser |-> "red"]]

\* prettyPrint(ev): the one console.log call it makes, as the format it
\* passes and the values after it.
prettyPrint(ev, e) ==
  LET hasFields == DOMAIN ev.fields # {}
      rich ==
        [fn |-> "log",
         format |-> (IF e.isBrowser THEN <<"%c%s - %s">>
                                   ELSE <<"ansi", levelColors[ev.level].terminal, "%s - %s">>)
                    \o (IF hasFields THEN <<" %o">> ELSE <<>>)
                    \o (IF ev.hasRequest THEN <<" %o">> ELSE <<>>),
         values |-> (IF e.isBrowser THEN <<levelColors[ev.level].browser>> ELSE <<>>)
                    \o <<ev.level, ev.message>>
                    \o (IF hasFields THEN <<"fields">> ELSE <<>>)
                    \o (IF ev.hasRequest THEN <<"request">> ELSE <<>>)]
      plain ==
        [fn |-> "log",
         format |-> <<ev.level, " - ", ev.message>>
                    \o (IF hasFields THEN <<" ", "json(fields)">> ELSE <<>>),
         values |-> <<>>]
  IN  IF e.isNoPrettyPrint THEN plain ELSE rich

\* console.warn(err)
ConsoleWarn == [fn |-> "warn", format |-> <<>>, values |-> <<"err">>]

\* What client.ingest can do when it is called.
ClientIngestOutcomes == {"returns", "throws"}

\* The catch clause of ingest: the console writes after client.ingest threw.
IngestCatch == <<ConsoleWarn>>

\* ingest(ev): the console writes, the client.ingest calls, and whether the
\* call throws to _log.
Ingest(ev, e, client) ==
  IF ~e.isEnvVarsSet
    THEN [console |-> <<prettyPrint(ev, e)>>, sent |-> <<>>, threw |-> FALSE]
    ELSE [console |-> IF client = "throws" THEN IngestCatch ELSE <<>>,
          sent |-> <<ev>>,
          threw |-> FALSE]

\* ----------------------------------------------------------- level methods

\* What _log(level, message, args) does on a logger lg: the events it hands
\* to ingest, the console writes, the client.ingest calls, and whether it
\* throws to its caller.
LogResult(lg, level, arg, e, h, client) ==
  IF BelowThreshold(level, lg.logLevel)
    THEN [emitted |-> <<>>, console |-> <<>>, sent |-> <<>>, threw |-> FALSE]
    ELSE IF BuildThrows(arg)
      THEN [emitted |-> <<>>, console |-> <<>>, sent |-> <<>>, threw |-> TRUE]
      ELSE LET ev == LogEvent(level, lg.config, arg, h)
               r == Ingest(ev, e, client)
           IN  [emitted |-> <<ev>>, console |-> r.console, sent |-> r.sent,
                threw |-> r.threw]

\* Whether the call gets as far as client.ingest.
ReachesClient(lg, level, arg, e) ==
  /\ ~BelowThreshold(level, lg.logLevel)
  /\ ~BuildThrows(arg)
  /\ e.isEnvVarsSet

\* A call of a level method on logger l with argument arg0: nothing of the
\* state changes; what the call did is left in out.
Log(l, level, arg0) ==
  \E client \in IF ReachesClient(loggers[l], level, DefaultArgs(arg0), env)
                  THEN ClientIngestOutcomes ELSE {"not called"} :
    LET r == LogResult(loggers[l], level, DefaultArgs(arg0), env, heap, client)
    IN  /\ out' = [op |-> "log", logger |-> l, level |-> level, arg |-> arg0,
                   client |-> client, emitted |-> r.emitted,
                   console |-> r.console, sent |-> r.sent, threw |-> r.threw]
        /\ UNCHANGED <<env, heap, loggers, returned>>

Debug(l, arg) == Log(l, "debug", arg)
Info(l, arg) == Log(l, "info", arg)
Warn(l, arg) == Log(l, "warn", arg)
Error(l, arg) == Log(l, "error", arg)

\* What client.flush can do: its promise resolves or rejects, or the call throws.
ClientFlushOutcomes == {"resolves", "rejects", "throws"}

\* Variant of FlushResult: no catch, so a failure of client.flush reaches the
\* caller of flush.
FlushResultNoCatch(client) ==
  IF client = "resolves"
    THEN [settled |-> "resolved", console |-> <<>>]
    ELSE [settled |-> "rejected", console |-> <<>>]

\* flush's try / catch: how the returned promise settles and what is written.
FlushResult(client) ==
  IF client = "resolves"
    THEN [settled |-> "resolved", console |-> <<>>]
    ELSE [settled |-> "resolved", console |-> <<ConsoleWarn>>]

\* await loggers[l].flush()
Flush(l) ==
  \E client \in ClientFlushOutcomes :
    /\ out' = [op |-> "flush", logger |-> l, client |-> client,
               settled |-> FlushResult(client).settled,
               console |-> FlushResult(client).console]
    /\ UNCHANGED <<env, heap, loggers, returned>>

\* ------------------------------------------- the caller changing a config

\* The values a caller assigns to a top-level key of logger.config.
TopLevelValues(k) ==
  CASE k = "logLevel" -> {LevelNumber.error}
    [] k = "source"   -> {"edge"}
    [] OTHER          -> {[z |-> "m1"]}

\* logger.config[k] = v, a map being a new object.
SetKey(c, k, v) ==
  /\ heap' = IF k \in {"args", "req"} THEN Append(heap, v) ELSE heap
  /\ loggers' = [loggers EXCEPT ![c].config =
                   Spread(@, IF k \in {"args", "req"}
                               THEN (k :> Len(heap) + 1) ELSE (k :> v))]
  /\ returned' = Append(returned, [op |-> "change", parent |-> c, child |-> c, input |-> EmptyMap])
  /\ out' = [op |-> "setKey", logger |-> c, key |-> k]
  /\ UNCHANGED env

\* logger.config[m][k] = v for m = "args" or "req", the map being there.
SetEntry(c, m, k, v) ==
  /\ m \in DOMAIN loggers[c].config
  /\ heap' = [heap EXCEPT ![loggers[c].config[m]] = Spread(@, (k :> v))]
  /\ returned' = Append(returned, [op |-> "change", parent |-> c, child |-> c, input |-> EmptyMap])
  /\ out' = [op |-> "setEntry", logger |-> c, key |-> m]
  /\ UNCHANGED <<env, loggers>>

\* -------------------------------------------------------- specifications

NoCall == [op |-> "new"]

\* The state after logger = new Logger(initConfig) in a process with settings e.
Constructed(initConfig, e) ==
  /\ env = e
  /\ heap = HeapWith(initConfig, <<>>)
  /\ loggers = <<NewLogger(RefsOf(initConfig, <<>>), e)>>
  /\ returned = <<>>
  /\ out = NoCall

\* Loggers made from the root so far.
Created == Len(loggers) - 1

\* Spec: one logger, constructed with any of InitConfigs in a process with any
\* of Envs, and every call of a level method and of flush on it.
InitConfigs ==
  { EmptyMap }
  \cup { [logLevel |-> n] : n \in LevelNumbers \ {LevelNumber.debug} }
  \cup { [logLevel |-> LevelNumber.info, args |-> [a |-> "v1", message |-> "cfg"]],
         [args |-> [a |-> "v1"], req |-> [path |-> "/"]] }

Init == \E e \in Envs : \E c \in InitConfigs : Constructed(c, e)

Next ==
  \/ \E l \in DOMAIN loggers : \E a \in Args : Debug(l, a)
  \/ \E l \in DOMAIN loggers : \E a \in Args : Info(l, a)
  \/ \E l \in DOMAIN loggers : \E a \in Args : Warn(l, a)
  \/ \E l \in DOMAIN loggers : \E a \in Args : Error(l, a)
  \/ \E l \in DOMAIN loggers : Flush(l)

Spec == Init /\ [][Next]_vars

\* SpecChain: loggers made by withArgs from a root logger and from each
\* other, and calls of info and error on any of them.
ChainEnvs == {e \in Envs : ~e.isNoPrettyPrint /\ ~e.isBrowser /\ e.LOG_LEVEL = "debug"}
ChainConfigs == { EmptyMap, [logLevel |-> LevelNumber.info, args |-> [a |-> "v1"]] }
ChainCallArgs == { ArgOmitted, ArgObjectA, ArgError }

InitChain == \E e \in ChainEnvs : \E c \in ChainConfigs : Constructed(c, e)

NextChain ==
  \/ \E p \in DOMAIN loggers : \E a \in WithArgsInputs : Created < MaxChain /\ WithArgs(p, a)
  \/ \E l \in DOMAIN loggers : \E a \in ChainCallArgs : Info(l, a)
  \/ \E l \in DOMAIN loggers : \E a \in ChainCallArgs : Error(l, a)

SpecChain == InitChain /\ [][NextChain]_vars

\* SpecTree: a tree of loggers made by with, withArgs and withRequest, and
\* the caller changing the config of any of them afterwards.
TreeEnvs == {e \in ChainEnvs : ~e.isEnvVarsSet}
TreeConfigs == { [args |-> [a |-> "v1"]], [args |-> [a |-> "v1"], req |-> [path |-> "/"]] }
TreeArgsInputs == { [a |-> "v2"] }

InitTree == \E e \in TreeEnvs : \E c \in TreeConfigs : Constructed(c, e)

Calls == Len(returned)

\* The entries a caller sets in an args or a req map: one that is there and
\* one that is not.
EntryKeys(m) == IF m = "args" THEN {"a", "z"} ELSE {"path", "z"}

NextTree ==
  \/ \E p \in DOMAIN loggers : \E c \in WithCfgs : Calls < MaxCalls /\ With(p, c)
  \/ \E p \in DOMAIN loggers : \E a \in TreeArgsInputs : Calls < MaxCalls /\ WithArgs(p, a)
  \/ \E p \in DOMAIN loggers : \E r \in WithRequestInputs : Calls < MaxCalls /\ WithRequest(p, r)
  \/ \E c \in DOMAIN loggers : \E k \in {"args", "req", "source"} :
       \E v \in TopLevelValues(k) : Calls < MaxCalls /\ SetKey(c, k, v)
  \/ \E c \in DOMAIN loggers : \E m \in {"args", "req"} : \E k \in EntryKeys(m) :
       Calls < MaxCalls /\ SetEntry(c, m, k, "m2")

SpecTree == InitTree /\ [][NextTree]_vars

\* ------------------------------------------------------------- properties

\* The logger the most recent call was made on.
Callee == loggers[out.logger]

\* The fields of every event the most recent call handed to ingest.
EmittedFields == {out.emitted[i].fields : i \in DOMAIN out.emitted}

\* The records of the loggers returned by with, withArgs and withRequest.
Returns == {returned[i] : i \in DOMAIN returned}
Creations == {r \in Returns : r.op \in {"with", "withArgs", "withRequest"}}

\* C1: for levels L1 < L2, a call of the level method L1 on a logger
\* constructed with config.logLevel = L2 writes nothing to the console, makes
\* no call to the ingestion client and builds no event.
BelowConfiguredLevelIsSilent ==
  ( /\ out.op = "log"
    /\ "logLevel" \in DOMAIN Callee.config
    /\ LevelNumber[out.level] < Callee.config.logLevel )
  => /\ out.console = <<>>
     /\ out.sent = <<>>
     /\ out.emitted = <<>>

\* C2: the promise flush returns resolves whatever client.flush does, and a
\* failure of client.flush is written to the console as a warning.
FlushNeverRejects ==
  out.op = "flush" =>
    /\ out.settled = "resolved"
    /\ out.client # "resolves" => out.console = <<ConsoleWarn>>

\* A flush whose client.flush rejected.
FlushAfterRejection == out.op = "flush" /\ out.client = "rejects"

\* C3: no call of a level method throws to its caller, whatever the argument
\* and whatever client.ingest does; a throwing client.ingest is warned to the
\* console.
LevelMethodsNeverThrow ==
  out.op = "log" =>
    /\ ~out.threw
    /\ out.client = "throws" => out.console = <<ConsoleWarn>>

\* C6: with the ingestion credentials unset, every call of a level method
\* that passes the level test makes exactly one console write and no call to
\* client.ingest.
UnsetCredentialsWriteOnceToConsole ==
  ( /\ out.op = "log"
    /\ ~env.isEnvVarsSet
    /\ ~BelowThreshold(out.level, Callee.logLevel) )
  => /\ Len(out.console) = 1
     /\ out.sent = <<>>

\* C8: for an Error argument the event's fields hold message, stack and name
\* with the error's values, and every key of the logger's configured args
\* (with the configured value on a key other than those three); the Error
\* itself is no value of fields.
ErrorArgumentIsDecomposed ==
  (out.op = "log" /\ out.arg.kind = "error") =>
    \A f \in EmittedFields :
      LET base == ArgsOf(Callee.config, heap)
          own == {"message", "stack", "name"}
      IN  /\ own \subseteq DOMAIN f
          /\ \A k \in own : f[k] = out.arg.entries[k]
          /\ DOMAIN base \subseteq DOMAIN f
          /\ \A k \in (DOMAIN base) \ own : f[k] = base[k]
          /\ \A k \in DOMAIN f : f[k] # out.arg.whole

\* An event built from an Error argument on a logger with configured args,
\* one of them under the key message.
ErrorEventWithConfiguredArgs ==
  /\ out.op = "log"
  /\ out.arg.kind = "error"
  /\ out.emitted # <<>>
  /\ {"a", "message"} \subseteq DOMAIN ArgsOf(Callee.config, heap)

\* C9: a plain-mapping argument has its entries spread into fields; any other
\* argument that is no Error (a string, a number, an array) is stored whole
\* under fields.args and is not spread.
ArgumentIsSpreadOrStoredWhole ==
  out.op = "log" =>
    \A f \in EmittedFields :
      LET base == ArgsOf(Callee.config, heap)
      IN  /\ out.arg.kind = "object" =>
               \A k \in DOMAIN out.arg.entries :
                 out.arg.entries[k] # JsUndefined =>
                   k \in DOMAIN f /\ f[k] = out.arg.entries[k]
          /\ out.arg.kind \in {"string", "number", "array"} =>
               /\ "args" \in DOMAIN f
               /\ f.args = out.arg.whole
               /\ DOMAIN f = (DOMAIN base) \cup {"args"}

\* The record of the call that returned logger l.
ReturnOf(l) == CHOOSE r \in Creations : r.child = l

\* The merge of the root's args and the args of the withArgs calls that lead
\* from the root to logger l, a later call's value on a key set more than once.
RECURSIVE ChainArgs(_)
ChainArgs(l) ==
  IF l = 1
    THEN ArgsOf(loggers[1].config, heap)
    ELSE Spread(ChainArgs(ReturnOf(l).parent), ReturnOf(l).input)

\* The config of logger l but for args.
OtherConfig(l) ==
  [k \in (DOMAIN loggers[l].config) \ {"args"} |-> loggers[l].config[k]]

\* The keys the argument of the most recent call puts into fields itself.
CallKeys == DOMAIN BuildFields(EmptyMap, DefaultArgs(out.arg))

\* C7 as stated: every event emitted by a logger at the end of a chain of
\* withArgs calls has each key of the chain (and of the root's args) in its
\* fields with the value of the latest withArgs that set it, and the logger's
\* config is the root's on every key but args.
ChainFieldsCarryLatestWithArgs ==
  (out.op = "log" /\ out.logger # 1) =>
    /\ \A f \in EmittedFields :
         \A k \in DOMAIN ChainArgs(out.logger) :
           k \in DOMAIN f /\ f[k] = ChainArgs(out.logger)[k]
    /\ OtherConfig(out.logger) = OtherConfig(1)

\* C7, amended: as above, but a key the call's own argument sets carries the
\* argument's value.
ChainFieldsCarryLatestUnlessCallSets ==
  (out.op = "log" /\ out.logger # 1) =>
    /\ \A f \in EmittedFields :
         \A k \in DOMAIN ChainArgs(out.logger) :
           /\ k \in DOMAIN f
           /\ k \notin CallKeys => f[k] = ChainArgs(out.logger)[k]
    /\ OtherConfig(out.logger) = OtherConfig(1)

\* An event emitted by the second logger of a chain whose two withArgs calls
\* set the key a to different values.
EventAfterTwoWithArgs ==
  /\ out.op = "log"
  /\ out.emitted # <<>>
  /\ Len(returned) >= 2
  /\ out.logger = returned[2].child
  /\ returned[2].parent = returned[1].child
  /\ "a" \in DOMAIN returned[1].input
  /\ "a" \in DOMAIN returned[2].input
  /\ returned[1].input.a # returned[2].input.a
  /\ "a" \notin CallKeys

\* C5 as stated: when the parent's config and the overrides both have an args
\* map, the args of the logger with() returns are the key-wise merge of the two.
WithMergesArgsKeyWise ==
  ( /\ out.op = "with"
    /\ "args" \in DOMAIN out.input
    /\ "args" \in DOMAIN Callee.config )
  => ArgsOf(loggers[out.child].config, heap)
       = Spread(ArgsOf(Callee.config, heap), out.input.args)

\* C5, amended: the args of the logger with() returns are the overrides' args
\* map alone.
WithTakesOverrideArgs ==
  ( /\ out.op = "with"
    /\ "args" \in DOMAIN out.input
    /\ "args" \in DOMAIN Callee.config )
  => ArgsOf(loggers[out.child].config, heap) = out.input.args

\* with() returned, the overrides having an args map and the parent's args a
\* key the overrides' args lack.
WithOverridingArgs ==
  /\ out.op = "with"
  /\ "args" \in DOMAIN out.input
  /\ "args" \in DOMAIN Callee.config
  /\ (DOMAIN ArgsOf(Callee.config, heap)) \ (DOMAIN out.input.args) # {}

\* The step is a change the caller makes to the config of logger c.
CallerChanges(c) ==
  /\ Len(returned') = Len(returned) + 1
  /\ out'.op \in {"setKey", "setEntry"}
  /\ out'.logger = c

\* What a reader of logger p's config sees is the same after the step.
ConfigUnchanged(p) ==
  DeepConfig(loggers'[p].config, heap') = DeepConfig(loggers[p].config, heap)

\* C4 as stated: after child = parent.with(cfg), no change to the child's
\* config (a top-level key replaced, an entry of its args or req map set)
\* changes the parent's config.
ChildChangeLeavesParent ==
  [][ \A r \in Creations :
        (r.op = "with" /\ CallerChanges(r.child)) => ConfigUnchanged(r.parent) ]_vars

\* C4, amended: replacing a top-level key of the child's config never changes
\* the parent's config, and setting an entry of the child's args or req map
\* does not when cfg gave the child that map.
ChildChangeLeavesParentUnlessShared ==
  [][ \A r \in Creations :
        ( /\ r.op = "with"
          /\ CallerChanges(r.child)
          /\ out'.op = "setEntry" => out'.key \in DOMAIN r.input )
        => ConfigUnchanged(r.parent) ]_vars

\* The caller set an entry of a map that with() gave the child from cfg.
ChildEntrySetAfterWith ==
  /\ out.op = "setEntry"
  /\ \E r \in Creations :
       r.op = "with" /\ r.child = out.logger /\ out.key \in DOMAIN r.input

\* How many times logger c is in the list children.
Occurrences(children, c) == Cardinality({i \in DOMAIN children : children[i] = c})

\* C10: every logger returned by with, withArgs or withRequest on a logger p
\* is exactly once in p.children, and p.children holds no other logger.
ChildrenListsAreTheTree ==
  \A p \in DOMAIN loggers :
    LET made == {r.child : r \in {x \in Creations : x.parent = p}}
    IN  /\ \A c \in made : Occurrences(loggers[p].children, c) = 1
        /\ \A i \in DOMAIN loggers[p].children : loggers[p].children[i] \in made

====
